---- MODULE Spec2Model ----
(***************************************************************************)
(* A model of the two reporting scripts of the repository:                 *)
(*   - VisualizePrices.py: save_plot, the three report builders and the    *)
(*     menu loop of main();                                                *)
(*   - benchmark_virtual_nonvirtual_order_visualization.py: create_chart.  *)
(* File names are sequences of one-character strings, so that building a   *)
(* name (f-string, os.path.join, strftime) is a real concatenation.        *)
(***************************************************************************)
EXTENDS Integers, Sequences, FiniteSets, TLC

VARIABLES
    pc,         \* the menu process: "start", "menu", "exited", "crashed"; "lib" for a direct caller
    fs,         \* the files written so far: path -> who wrote it
    dirs,       \* the directories that exist under the working directory
    now,        \* the wall clock, in half seconds after 2026-12-31 23:59:59
    gcf,        \* pyplot's registry of open figures (each named by the report that made it)
    calls,      \* number of report / writer calls made so far
    last,       \* what the last operation saw and did
    backend,    \* matplotlib backend: "interactive" or "noninteractive"
    data,       \* the input of an aggregation: benchmark rows, or a price column
    series      \* what the aggregation computed from data

vars == <<pc, fs, dirs, now, gcf, calls, last, backend, data, series>>

----------------------------------------------------------------------------
(* Bounds *)

MaxNow == 2
MaxCalls == 2
MaxFormats == 2
MaxRows == 3
MaxPrices == 12
MaxReturnPrices == 4

----------------------------------------------------------------------------
(* Text *)

Min(a, b) == IF a < b THEN a ELSE b
Max(a, b) == IF a > b THEN a ELSE b

Digits == <<"0", "1", "2", "3", "4", "5", "6", "7", "8", "9">>

DigitSet == {Digits[i] : i \in 1..10}

Digit(d) == Digits[d + 1]

\* %m, %d, %H, %M, %S: two digits, zero-padded
Pad2(n) == <<Digit((n \div 10) % 10), Digit(n % 10)>>

\* %Y: four digits
Pad4(n) == <<Digit((n \div 1000) % 10), Digit((n \div 100) % 10)>> \o Pad2(n % 100)

plots_dir == <<"s", "a", "v", "e", "d", "_", "p", "l", "o", "t", "s">>

pdf == <<"p", "d", "f">>
png == <<"p", "n", "g">>

\* the formats a caller asks for
FormatSet == {pdf, png}

\* datetime.now(): the clock reading as a date and a time of day, the fraction of
\* a second kept apart
datetime_now(t) ==
    LET total == 86399 + (t \div 2)
        day == total \div 86400
        sod == total % 86400
    IN  [year |-> IF day = 0 THEN 2026 ELSE 2027,
         month |-> IF day = 0 THEN 12 ELSE 1,
         day |-> IF day = 0 THEN 31 ELSE day,
         hour |-> sod \div 3600,
         minute |-> (sod % 3600) \div 60,
         second |-> sod % 60,
         half |-> t % 2]

\* strftime with the seconds left out of the format: "%Y%m%d_%H%M"
StrftimeNoSeconds(dt) ==
    Pad4(dt.year) \o Pad2(dt.month) \o Pad2(dt.day) \o <<"_">>
        \o Pad2(dt.hour) \o Pad2(dt.minute)

\* strftime("%Y%m%d_%H%M%S")
strftime(dt) ==
    Pad4(dt.year) \o Pad2(dt.month) \o Pad2(dt.day) \o <<"_">>
        \o Pad2(dt.hour) \o Pad2(dt.minute) \o Pad2(dt.second)

\* the base name with the timestamp left out
BaseNameNoStamp(plot_name, timestamp) == plot_name

\* f"{plot_name}_{timestamp}"
base_name(plot_name, timestamp) == plot_name \o <<"_">> \o timestamp

\* the file name without os.path.join: a file in the working directory
FilenameNoDir(base, fmt) == base \o <<".">> \o fmt

\* os.path.join(plots_dir, f"{base_name}.{fmt}")
Filename(base, fmt) == plots_dir \o <<"/">> \o base \o <<".">> \o fmt

----------------------------------------------------------------------------
(* save_plot *)

\* The places where a save_plot call over `formats` can stop: 0 is os.makedirs
\* raising, j in 1..n is savefig raising on the j-th format (an encoding or an
\* I/O error), n+1 is no failure.
FailPoints(formats) == 0..(Len(formats) + 1)

\* The index of the last format, among the first `done`, written to path p
LastWriter(base, formats, done, p) ==
    CHOOSE j \in 1..done :
        /\ Filename(base, formats[j]) = p
        /\ \A k \in (j + 1)..done : Filename(base, formats[k]) # p

\* save_plot(fig, plot_name, formats) at clock t, stopping at failAt
save_plot(fsx, dirsx, t, id, plot_name, formats, failAt) ==
    LET timestamp == strftime(datetime_now(t))
        base == base_name(plot_name, timestamp)
        n == Len(formats)
        done == IF failAt = 0 THEN 0 ELSE Min(failAt - 1, n)
        W == {Filename(base, formats[j]) : j \in 1..done}
    IN  [fs |-> [p \in DOMAIN fsx \cup W |->
                    IF p \in W
                    THEN [op |-> "save_plot", call |-> id, name |-> plot_name,
                          fmt |-> formats[LastWriter(base, formats, done, p)],
                          stamp |-> timestamp]
                    ELSE fsx[p]],
         dirs |-> IF failAt = 0 THEN dirsx ELSE dirsx \cup {plots_dir},
         raised |-> failAt <= n,
         ret |-> IF failAt <= n THEN <<>> ELSE base,
         stamp |-> timestamp,
         written |-> W]

----------------------------------------------------------------------------
(* Direct callers of save_plot: any plot name, any list of formats *)

PlotNames == {<<"p">>, <<"p", "_", "1">>}

\* the lists of at most n formats
FormatLists(n) == UNION {[1..k -> FormatSet] : k \in 0..n}

NoOp == [op |-> "none"]

NoData == <<>>

InitWriter ==
    /\ pc = "lib"
    /\ fs = <<>>
    /\ dirs = {}
    /\ now = 0
    /\ gcf = {}
    /\ calls = 0
    /\ last = NoOp
    /\ backend = "noninteractive"
    /\ data = NoData
    /\ series = NoOp

\* the clock advances by half a second
Tick ==
    /\ now < MaxNow
    /\ now' = now + 1
    /\ UNCHANGED <<pc, fs, dirs, gcf, calls, last, backend, data, series>>

\* a caller runs save_plot(fig, plot_name, formats) on a figure of its own
SavePlotCall ==
    /\ pc = "lib"
    /\ calls < MaxCalls
    /\ \E plot_name \in PlotNames, formats \in FormatLists(MaxFormats) :
         \E failAt \in FailPoints(formats) :
           LET r == save_plot(fs, dirs, now, calls + 1, plot_name, formats, failAt)
           IN  /\ fs' = r.fs
               /\ dirs' = r.dirs
               /\ last' = [op |-> "save_plot", call |-> calls + 1, name |-> plot_name,
                           formats |-> formats, at |-> now,
                           result |-> IF r.raised THEN "raised" ELSE "returned",
                           ret |-> r.ret, before |-> DOMAIN fs]
    /\ calls' = calls + 1
    /\ UNCHANGED <<pc, now, gcf, backend, data, series>>

NextWriter == Tick \/ SavePlotCall

SpecWriter == InitWriter /\ [][NextWriter]_vars

----------------------------------------------------------------------------
(* Claims about save_plot *)

\* the files now on disk that call `id` wrote
FilesOf(id) == {p \in DOMAIN fs : fs[p].call = id}

Range(f) == {f[i] : i \in DOMAIN f}

AllDigits(sq) == \A i \in DOMAIN sq : sq[i] \in DigitSet

\* path = saved_plots/<P>_<8 digits>_<6 digits>.<fmt>
IsStampedPath(path, P, fmt) ==
    LET a == Len(plots_dir) + 1 + Len(P)
    IN  /\ Len(path) = a + 1 + 8 + 1 + 6 + 1 + Len(fmt)
        /\ SubSeq(path, 1, a) = plots_dir \o <<"/">> \o P
        /\ path[a + 1] = "_"
        /\ AllDigits(SubSeq(path, a + 2, a + 9))
        /\ path[a + 10] = "_"
        /\ AllDigits(SubSeq(path, a + 11, a + 16))
        /\ path[a + 17] = "."
        /\ SubSeq(path, a + 18, Len(path)) = fmt

\* the <P>_<timestamp> part of a stamped path
TokenOf(path, fmt) ==
    SubSeq(path, Len(plots_dir) + 2, Len(path) - Len(fmt) - 1)

\* C2: a save_plot call that fails leaves none of its files behind, and one that
\* succeeds leaves a file for every requested format.
C2_NeverPartiallyWrites ==
    last.op = "save_plot" =>
        /\ last.result = "raised" => FilesOf(last.call) = {}
        /\ last.result = "returned" =>
             \A j \in DOMAIN last.formats :
                 \E p \in FilesOf(last.call) : IsStampedPath(p, last.name, last.formats[j])

\* C5: the files of one save_plot call are named P_<YYYYMMDD>_<HHMMSS>.<fmt> for the
\* formats asked for, they all carry one and the same P_<timestamp> token, a call
\* that returns leaves one file per format, and it returns exactly that token.
C5_OneTimestampPerCall ==
    last.op = "save_plot" =>
        /\ \A p \in FilesOf(last.call) :
               \E fmt \in Range(last.formats) : IsStampedPath(p, last.name, fmt)
        /\ \A p, q \in FilesOf(last.call) :
               TokenOf(p, fs[p].fmt) = TokenOf(q, fs[q].fmt)
        /\ last.result = "returned" =>
               /\ Len(last.ret) = Len(last.name) + 16
               /\ \A j \in DOMAIN last.formats :
                      /\ Filename(last.ret, last.formats[j]) \in FilesOf(last.call)
                      /\ IsStampedPath(Filename(last.ret, last.formats[j]),
                                       last.name, last.formats[j])

\* a call that returned after writing two formats, past midnight (zero-padded fields)
C5_Witness ==
    /\ last.op = "save_plot"
    /\ last.result = "returned"
    /\ Cardinality(FilesOf(last.call)) = 2
    /\ datetime_now(last.at).hour = 0

\* C6: a save_plot call keeps every file that was there, and rewrites one only when
\* plot name, format and timestamp token are those of the call that wrote it.
C6_NoOverwriteAcrossTimestamps ==
    [][\A p \in DOMAIN fs :
          /\ p \in DOMAIN fs'
          /\ fs'[p] # fs[p] =>
                /\ fs'[p].name = fs[p].name
                /\ fs'[p].fmt = fs[p].fmt
                /\ fs'[p].stamp = fs[p].stamp]_vars

\* a second call for the same plot name and format, at a later second, has left its
\* file beside the first call's
C6_Witness ==
    /\ last.op = "save_plot"
    /\ \E p \in last.before, q \in FilesOf(last.call) :
          /\ fs[p].call # last.call
          /\ fs[p].name = fs[q].name
          /\ fs[p].fmt = fs[q].fmt
          /\ fs[p].stamp # fs[q].stamp

----------------------------------------------------------------------------
(* The input files *)

OrderCols == {"timestamp_ns", "instrument_id", "side", "price"}
PriceCols == {"timestamp_ns", "price"}
ResultCols == {"pattern", "impl", "ops_per_sec"}

Absent == [exists |-> FALSE, parses |-> FALSE, usable |-> {}]
Unparsable == [exists |-> TRUE, parses |-> FALSE, usable |-> {}]

\* The CSV files the environment offers: none, one that does not parse, one with
\* every column of `cols`, or one where a column is missing or holds values the
\* computations on it raise for. usable: the columns the report can work with.
CsvFiles(cols) ==
    {Absent, Unparsable}
        \cup {[exists |-> TRUE, parses |-> TRUE, usable |-> cols \ m] :
                 m \in {{}} \cup {{c} : c \in cols}}

\* pd.read_csv(csv_file)
read_csv(f) ==
    IF ~f.exists THEN "FileNotFoundError"
    ELSE IF ~f.parses THEN "Exception"
    ELSE "ok"

\* What a report builder did: made (a figure was created and registered with
\* pyplot), fig (the figure was returned, None otherwise), caught (the except
\* clause that ran).
Built(made, fig, caught) == [made |-> made, fig |-> fig, caught |-> caught]

create_order_history_plots(f) ==
    IF read_csv(f) # "ok" THEN Built(FALSE, FALSE, read_csv(f))
    ELSE IF "timestamp_ns" \notin f.usable THEN Built(FALSE, FALSE, "Exception")
    ELSE IF ~({"instrument_id", "side", "price"} \subseteq f.usable)
         THEN Built(TRUE, FALSE, "Exception")
    ELSE Built(TRUE, TRUE, "none")

create_price_analysis_plots(f) ==
    IF read_csv(f) # "ok" THEN Built(FALSE, FALSE, read_csv(f))
    ELSE IF ~({"timestamp_ns", "price"} \subseteq f.usable)
         THEN Built(TRUE, FALSE, "Exception")
    ELSE Built(TRUE, TRUE, "none")

\* the dashboard built from the order history alone, the price panels skipped
DashboardWithoutPrices(o, p) ==
    IF read_csv(o) # "ok" THEN Built(FALSE, FALSE, read_csv(o))
    ELSE IF ~({"side", "instrument_id", "price"} \subseteq o.usable)
         THEN Built(TRUE, FALSE, "Exception")
    ELSE Built(TRUE, TRUE, "none")

create_comprehensive_dashboard(o, p) ==
    IF read_csv(o) # "ok" THEN Built(FALSE, FALSE, read_csv(o))
    ELSE IF read_csv(p) # "ok" THEN Built(FALSE, FALSE, read_csv(p))
    ELSE IF ~({"side", "instrument_id", "price"} \subseteq o.usable)
              \/ ~({"timestamp_ns", "price"} \subseteq p.usable)
         THEN Built(TRUE, FALSE, "Exception")
    ELSE Built(TRUE, TRUE, "none")

----------------------------------------------------------------------------
(* main(): the menu loop *)

order_history_analysis == <<"o", "r", "d", "e", "r", "_", "h", "i", "s", "t", "o", "r", "y", "_", "a", "n", "a", "l", "y", "s", "i", "s">>
price_analysis_instrument_0 == <<"p", "r", "i", "c", "e", "_", "a", "n", "a", "l", "y", "s", "i", "s", "_", "i", "n", "s", "t", "r", "u", "m", "e", "n", "t", "_", "0">>
trading_dashboard == <<"t", "r", "a", "d", "i", "n", "g", "_", "d", "a", "s", "h", "b", "o", "a", "r", "d">>

Init ==
    /\ pc = "start"
    /\ fs = <<>>
    /\ dirs = {}
    /\ now = 0
    /\ gcf = {}
    /\ calls = 0
    /\ last = NoOp
    /\ backend \in {"interactive", "noninteractive"}
    /\ data = NoData
    /\ series = NoOp

\* main() up to the loop: os.makedirs(plots_dir, exist_ok=True)
MainStart ==
    /\ pc = "start"
    /\ pc' = "menu"
    /\ dirs' = dirs \cup {plots_dir}
    /\ UNCHANGED <<fs, now, gcf, calls, last, backend, data, series>>

\* One menu choice 1-3: the builder's outcome b, then `if fig:` save_plot(fig, name)
\* with the default formats and plt.show(). A figure the builder made is in pyplot's
\* registry from then on; plt.show() displays every registered figure and, on an
\* interactive backend, returns when the user has closed them all.
RunReport(op, o, p, b, plot_name) ==
    LET id == calls + 1
        open == IF b.made THEN gcf \cup {id} ELSE gcf
        seen == [op |-> op, call |-> id, orders |-> o, prices |-> p,
                 made |-> b.made, fig |-> b.fig, before |-> DOMAIN fs]
    IN  /\ calls' = id
        /\ IF b.fig
           THEN \E failAt \in FailPoints(<<pdf>>) :
                  LET r == save_plot(fs, dirs, now, id, plot_name, <<pdf>>, failAt)
                  IN  /\ fs' = r.fs
                      /\ dirs' = r.dirs
                      /\ IF r.raised
                         THEN /\ pc' = "crashed"
                              /\ gcf' = open
                              /\ last' = seen @@
                                         [saved |-> TRUE, result |-> "raised", shown |-> {}]
                         ELSE /\ pc' = pc
                              /\ gcf' = IF backend = "interactive" THEN {} ELSE open
                              /\ last' = seen @@
                                         [saved |-> TRUE, result |-> "done",
                                          shown |-> IF backend = "interactive" THEN open ELSE {}]
           ELSE /\ UNCHANGED <<fs, dirs, pc>>
                /\ gcf' = open
                /\ last' = seen @@ [saved |-> FALSE, result |-> "done", shown |-> {}]
        /\ UNCHANGED <<now, backend, data, series>>

Choice1 ==
    /\ pc = "menu"
    /\ calls < MaxCalls
    /\ \E o \in CsvFiles(OrderCols) :
         RunReport("order_history", o, Absent,
                   create_order_history_plots(o), order_history_analysis)

Choice2 ==
    /\ pc = "menu"
    /\ calls < MaxCalls
    /\ \E p \in CsvFiles(PriceCols) :
         RunReport("price_analysis", Absent, p,
                   create_price_analysis_plots(p), price_analysis_instrument_0)

Choice3 ==
    /\ pc = "menu"
    /\ calls < MaxCalls
    /\ \E o \in CsvFiles(OrderCols), p \in CsvFiles(PriceCols) :
         RunReport("dashboard", o, p,
                   create_comprehensive_dashboard(o, p), trading_dashboard)

\* choices 4 and 5 and an invalid choice: nothing a report depends on changes
ChoiceOther ==
    /\ pc = "menu"
    /\ last' = [op |-> "menu"]
    /\ UNCHANGED <<pc, fs, dirs, now, gcf, calls, backend, data, series>>

Choice6 ==
    /\ pc = "menu"
    /\ pc' = "exited"
    /\ last' = [op |-> "exit"]
    /\ UNCHANGED <<fs, dirs, now, gcf, calls, backend, data, series>>

----------------------------------------------------------------------------
(* create_chart: the grouped median table *)

Patterns == {"homogeneous", "bursty", "mixed_random"}
Impls == {"virtual", "non-virtual"}

\* the sort order groupby gives the group keys
SortedPatterns == <<"bursty", "homogeneous", "mixed_random">>
SortedImpls == <<"non-virtual", "virtual">>

\* the order of the rows asked for
PatternOrder == <<"homogeneous", "bursty", "mixed_random">>

\* a float is a pair <<a, b>> for a / b, b > 0; not-a-number and the infinities are
\* the pairs with b = 0
NaN == <<0, 0>>
PosInf == <<1, 0>>
NegInf == <<-1, 0>>

\* half of a, in lowest terms
Half(a) == IF a % 2 = 0 THEN <<a \div 2, 1>> ELSE <<a, 2>>

\* Series.median(): the middle of the sorted values, the mean of the two middle
\* ones when their number is even
median(vals) ==
    LET sorted == SortSeq(vals, LAMBDA a, b : a < b)
        n == Len(vals)
    IN  IF n % 2 = 1 THEN Half(2 * sorted[(n + 1) \div 2])
        ELSE Half(sorted[n \div 2] + sorted[(n \div 2) + 1])

\* the ops_per_sec of the rows of one (pattern, impl) group, in row order
GroupValues(rows, pattern, impl) ==
    LET g == SelectSeq(rows, LAMBDA r : r.pattern = pattern /\ r.impl = impl)
    IN  [i \in 1..Len(g) |-> g[i].ops_per_sec]

\* df.groupby(['pattern', 'impl'])['ops_per_sec'].median().unstack(): one row per
\* pattern and one column per impl that occur, NaN where the pair has no rows
groupby_median_unstack(rows) ==
    [index |-> SelectSeq(SortedPatterns, LAMBDA x : \E i \in DOMAIN rows : rows[i].pattern = x),
     columns |-> SelectSeq(SortedImpls, LAMBDA y : \E i \in DOMAIN rows : rows[i].impl = y),
     at |-> [x \in {rows[i].pattern : i \in DOMAIN rows},
             y \in {rows[i].impl : i \in DOMAIN rows} |->
                IF GroupValues(rows, x, y) = <<>> THEN NaN
                ELSE median(GroupValues(rows, x, y))]]

\* the table with the reindex left out
ReindexKeepsIndex(t, labels) == t

\* DataFrame.reindex(labels): the rows in the order of labels, a row of NaN for a
\* label the table does not have
reindex(t, labels) ==
    [index |-> labels,
     columns |-> t.columns,
     at |-> [x \in Range(labels), y \in Range(t.columns) |->
                IF x \in Range(t.index) THEN t.at[x, y] ELSE NaN]]

median_throughput(rows) == reindex(groupby_median_unstack(rows), PatternOrder)

----------------------------------------------------------------------------
(* create_chart *)

throughput_chart_png == <<"t", "h", "r", "o", "u", "g", "h", "p", "u", "t", "_", "c", "h", "a", "r", "t", ".", "p", "n", "g">>

\* the output_image a caller passes: the default, or a name of its own
OutputImages == {throughput_chart_png, <<"c", ".", "p", "d", "f">>}

OpsValues == {1, 2, 4}

RowSet == [pattern : Patterns, impl : Impls, ops_per_sec : OpsValues]

\* the well-formed row sequences of at most n rows
RowSeqs(n) == UNION {[1..k -> RowSet] : k \in 0..n}

\* the result files the menu-and-chart specification draws from: a CSV file as
\* above, with no row or with one
ResultFiles ==
    {[exists |-> f.exists, parses |-> f.parses, usable |-> f.usable, rows |-> rows] :
        f \in CsvFiles(ResultCols), rows \in RowSeqs(1)}

\* What create_chart(csv_file, output_image) does up to plt.savefig: made (the bar
\* chart's figure exists), saves (plt.savefig is reached), result (it returns, or
\* an exception leaves it).
Charted(made, saves, result) == [made |-> made, saves |-> saves, result |-> result]

create_chart(f) ==
    IF ~f.exists THEN Charted(FALSE, FALSE, "returned")
    ELSE IF ~f.parses THEN Charted(FALSE, FALSE, "raised")
    ELSE IF ~(ResultCols \subseteq f.usable) THEN Charted(FALSE, FALSE, "raised")
    ELSE IF median_throughput(f.rows).columns = <<>> THEN Charted(FALSE, FALSE, "raised")
    ELSE Charted(TRUE, TRUE, "returned")

\* a run of create_chart: plt.savefig either writes output_image or raises
CreateChart ==
    /\ calls < MaxCalls
    /\ \E f \in ResultFiles, output_image \in OutputImages :
       \E written \in (IF create_chart(f).saves THEN BOOLEAN ELSE {FALSE}) :
         LET c == create_chart(f)
             id == calls + 1
             path == output_image
             seen == [op |-> "create_chart", call |-> id,
                      results |-> [exists |-> f.exists, parses |-> f.parses,
                                   usable |-> f.usable, nrows |-> Len(f.rows)],
                      out |-> output_image, made |-> c.made, saved |-> c.saves,
                      before |-> DOMAIN fs]
         IN  /\ IF written
                THEN fs' = [p \in DOMAIN fs \cup {path} |->
                              IF p = path
                              THEN [op |-> "create_chart", call |-> id, name |-> output_image,
                                    fmt |-> <<>>, stamp |-> <<>>]
                              ELSE fs[p]]
                ELSE fs' = fs
             /\ last' = seen @@
                    [result |-> IF c.saves /\ ~written THEN "raised" ELSE c.result]
    /\ calls' = calls + 1
    /\ UNCHANGED <<pc, dirs, now, gcf, backend, data, series>>

Next ==
    \/ MainStart
    \/ Choice1
    \/ Choice2
    \/ Choice3
    \/ ChoiceOther
    \/ Choice6
    \/ CreateChart
    \/ Tick

Spec == Init /\ [][Next]_vars

----------------------------------------------------------------------------
(* Claims about the reports *)

Failed(f, cols) == ~f.exists \/ ~f.parses \/ ~(cols \subseteq f.usable)

\* the last operation was a report one of whose stages before the write failed
UpstreamFailed ==
    \/ last.op = "order_history" /\ Failed(last.orders, OrderCols)
    \/ last.op = "price_analysis" /\ Failed(last.prices, PriceCols)
    \/ /\ last.op = "dashboard"
       /\ \/ Failed(last.orders, {"side", "instrument_id", "price"})
          \/ Failed(last.prices, PriceCols)
    \/ /\ last.op = "create_chart"
       /\ Failed(last.results, ResultCols) \/ last.results.nrows = 0

\* C1: a report one of whose stages before the write failed never reaches the
\* writer and leaves the files as they were.
C1_AbortWritesNothing ==
    UpstreamFailed =>
        /\ ~last.saved
        /\ FilesOf(last.call) = {}
        /\ DOMAIN fs = last.before

\* the dashboard with the order history there and the price file missing, after an
\* earlier report has written its file
C1_Witness ==
    /\ last.op = "dashboard"
    /\ ~Failed(last.orders, OrderCols)
    /\ ~last.prices.exists
    /\ last.before # {}
    /\ ~last.saved

\* C3: no failure of a report ends the process or leaves the report as an exception.
C3_NoFailureIsFatal ==
    /\ pc # "crashed"
    /\ last.op = "create_chart" => last.result # "raised"

\* some split of the path is saved_plots/<base>_<8 digits>_<6 digits>.<ext>
IsManagedStamped(path) ==
    \E a \in 0..Len(path), b \in 1..(Len(path) + 1) :
        IsStampedPath(path, SubSeq(path, Len(plots_dir) + 2, a), SubSeq(path, b, Len(path)))

C10_FiguresReleased ==
    pc = "menu" => gcf = {}

----------------------------------------------------------------------------
(* The aggregations as functions of their input *)

IdleInit ==
    /\ pc = "lib"
    /\ fs = <<>>
    /\ dirs = {}
    /\ now = 0
    /\ gcf = {}
    /\ calls = 0
    /\ last = NoOp
    /\ backend = "noninteractive"
    /\ series = NoOp

InitMedian == IdleInit /\ data \in RowSeqs(MaxRows)

\* lines 35-38 of create_chart on the rows read
GroupMedian ==
    /\ series = NoOp
    /\ series' = [op |-> "median_throughput", table |-> median_throughput(data)]
    /\ UNCHANGED <<pc, fs, dirs, now, gcf, calls, last, backend, data>>

SpecMedian == InitMedian /\ [][GroupMedian]_vars

\* the number of values of the (pattern, impl) group below v, and at most v
Below(rows, x, y, v) ==
    Cardinality({i \in DOMAIN rows :
        rows[i].pattern = x /\ rows[i].impl = y /\ rows[i].ops_per_sec < v})

AtMost(rows, x, y, v) ==
    Cardinality({i \in DOMAIN rows :
        rows[i].pattern = x /\ rows[i].impl = y /\ rows[i].ops_per_sec <= v})

\* v is the value of rank k (from 0) among the group's values
HasRank(rows, x, y, v, k) == Below(rows, x, y, v) <= k /\ k < AtMost(rows, x, y, v)

\* m = <<a, b>> is the median of the group of n > 0 values: the mean of the values
\* of ranks (n-1) div 2 and n div 2
IsMedianOf(rows, x, y, m) ==
    LET n == Cardinality({i \in DOMAIN rows : rows[i].pattern = x /\ rows[i].impl = y})
    IN  \E lo, hi \in OpsValues :
            /\ HasRank(rows, x, y, lo, (n - 1) \div 2)
            /\ HasRank(rows, x, y, hi, n \div 2)
            /\ 2 * m[1] = (lo + hi) * m[2]

\* C7: the table has the three rows homogeneous, bursty, mixed_random in that order,
\* the impl columns of the input and no other, the group's median in the cell of a
\* pair that has rows, and NaN in the cell of a pair that has none.
C7_GroupedMedianTable ==
    series.op = "median_throughput" =>
        LET t == series.table
        IN  /\ t.index = <<"homogeneous", "bursty", "mixed_random">>
            /\ Range(t.columns) = {data[i].impl : i \in DOMAIN data}
            /\ Len(t.columns) = Cardinality(Range(t.columns))
            /\ DOMAIN t.at = Range(t.index) \X Range(t.columns)
            /\ \A x \in Range(t.index), y \in Range(t.columns) :
                  IF \E i \in DOMAIN data : data[i].pattern = x /\ data[i].impl = y
                  THEN t.at[x, y] # NaN /\ IsMedianOf(data, x, y, t.at[x, y])
                  ELSE t.at[x, y] = NaN

\* a table with a pattern the input lacks, a pair without rows under a pattern the
\* input has, and a median between two different values
C7_Witness ==
    /\ series.op = "median_throughput"
    /\ \E x \in Patterns : \A i \in DOMAIN data : data[i].pattern # x
    /\ \E i \in DOMAIN data, y \in Range(series.table.columns) :
          series.table.at[data[i].pattern, y] = NaN
    /\ \E x \in Patterns, y \in Range(series.table.columns) :
          series.table.at[x, y] # NaN /\ series.table.at[x, y][2] = 2

----------------------------------------------------------------------------
(* Moving averages and period returns *)

RECURSIVE GCD(_, _)
GCD(a, b) == IF b = 0 THEN a ELSE GCD(b, a % b)

Abs(a) == IF a < 0 THEN -a ELSE a

\* a / b as a float: a fraction in lowest terms, inf or -inf for a nonzero number
\* over 0, NaN for 0 / 0
Divide(a, b) ==
    IF b = 0 THEN (IF a > 0 THEN PosInf ELSE IF a < 0 THEN NegInf ELSE NaN)
    ELSE LET g == GCD(Abs(a), Abs(b))
             sg == IF b < 0 THEN -1 ELSE 1
         IN  <<(sg * a) \div g, (sg * b) \div g>>

\* The sum the rolling window holds after taking in observation i: each step adds
\* the new value and removes the one that leaves the window.
RECURSIVE RollSum(_, _, _)
RollSum(col, window, i) ==
    IF i = 0 THEN 0
    ELSE RollSum(col, window, i - 1) + col[i]
            - (IF i > window THEN col[i - window] ELSE 0)

\* the rolling mean with the first full window left undefined
RollingMeanFromWindowPlusOne(col, window) ==
    [i \in 1..Len(col) |->
        IF i > window THEN Divide(RollSum(col, window, i), window) ELSE NaN]

\* Series.rolling(window).mean(), min_periods = window: NaN until the window is full
rolling_mean(col, window) ==
    [i \in 1..Len(col) |->
        IF Min(i, window) >= window THEN Divide(RollSum(col, window, i), window) ELSE NaN]

\* the change taken over the new price instead of the old one
PctChangeOverNew(col) ==
    [i \in 1..Len(col) |->
        IF i = 1 THEN NaN ELSE Divide(col[i] - col[i - 1], col[i])]

\* Series.pct_change(): NaN first, then col[i] / col[i-1] - 1
pct_change(col) ==
    [i \in 1..Len(col) |->
        IF i = 1 THEN NaN ELSE Divide(col[i] - col[i - 1], col[i - 1])]

\* Series.dropna(): the entries that are not NaN, each with the label it had
RECURSIVE dropna(_, _)
dropna(col, i) ==
    IF i > Len(col) THEN <<>>
    ELSE (IF col[i] = NaN THEN <<>> ELSE <<[label |-> i, value |-> col[i]]>>)
            \o dropna(col, i + 1)

PriceSeqs(values, n) == UNION {[1..k -> values] : k \in 0..n}

InitMA == IdleInit /\ data \in PriceSeqs({1, 2}, MaxPrices)

\* lines 135-136 of create_price_analysis_plots on the price column
MovingAverages ==
    /\ series = NoOp
    /\ series' = [op |-> "moving_averages",
                  MA5 |-> rolling_mean(data, 5), MA10 |-> rolling_mean(data, 10)]
    /\ UNCHANGED <<pc, fs, dirs, now, gcf, calls, last, backend, data>>

SpecMA == InitMA /\ [][MovingAverages]_vars

InitReturns == IdleInit /\ data \in PriceSeqs({0, 1, 2}, MaxReturnPrices)

\* line 147 of create_price_analysis_plots, line 218 of create_comprehensive_dashboard
PeriodReturns ==
    /\ series = NoOp
    /\ series' = [op |-> "returns", returns |-> dropna(pct_change(data), 1)]
    /\ UNCHANGED <<pc, fs, dirs, now, gcf, calls, last, backend, data>>

SpecReturns == InitReturns /\ [][PeriodReturns]_vars

RECURSIVE SumRange(_, _, _)
SumRange(col, lo, hi) == IF lo > hi THEN 0 ELSE col[lo] + SumRange(col, lo + 1, hi)

Defined(ma) == {i \in DOMAIN ma : ma[i] # NaN}

\* ma is the moving average of data over window w
IsMovingAverage(ma, w) ==
    /\ Len(ma) = Len(data)
    /\ \A i \in 1..Len(data) :
          IF i < w THEN ma[i] = NaN
          ELSE /\ ma[i] \notin {NaN, PosInf, NegInf}
               /\ ma[i][1] * w = ma[i][2] * SumRange(data, i - w + 1, i)
    /\ Cardinality(Defined(ma)) = Max(Len(data) - w + 1, 0)

\* C8: for w in {5, 10} the moving average has the length of the prices, is undefined
\* before the w-th entry and the mean of the last w prices from there on, so
\* max(n-w+1, 0) entries are defined: 8 and 3 of a 12-point series.
C8_MovingAverage ==
    series.op = "moving_averages" =>
        /\ IsMovingAverage(series.MA5, 5)
        /\ IsMovingAverage(series.MA10, 10)
        /\ Len(data) = 12 =>
              /\ Cardinality(Defined(series.MA5)) = 8
              /\ Cardinality(Defined(series.MA10)) = 3

\* the moving averages of a 12-point series whose prices are not all the same
C8_Witness ==
    /\ series.op = "moving_averages"
    /\ Len(data) = 12
    /\ data[1] # data[12]
    /\ series.MA10[12] # series.MA10[11]

\* r is the return (b - a) / a
IsReturn(r, a, b) ==
    IF a = 0 THEN r = (IF b > 0 THEN PosInf ELSE NegInf)
    ELSE /\ r \notin {NaN, PosInf, NegInf}
         /\ r[1] * a = r[2] * (b - a)

\* C9 as stated: the returns have length n-1 and element i is
\* (price[i+1]-price[i])/price[i].
C9_ReturnsLengthNMinus1 ==
    series.op = "returns" =>
        /\ Len(series.returns) = Len(data) - 1
        /\ \A i \in 1..(Len(data) - 1) :
              /\ series.returns[i].label = i + 1
              /\ IsReturn(series.returns[i].value, data[i], data[i + 1])

\* the positions whose price and whose predecessor's price are both 0
ZeroOverZero == {i \in 2..Len(data) : data[i] = 0 /\ data[i - 1] = 0}

\* C9 as amended: the returns hold, in order, one entry for every position but the
\* first and those whose price and predecessor are both 0 (0/0), each the return
\* over its predecessor; so for n >= 1 prices with no two consecutive zeros they
\* have length n-1 and element i is (price[i+1]-price[i])/price[i], and for n = 0
\* they are empty.
C9_ReturnsDropUndefined ==
    series.op = "returns" =>
        LET r == series.returns
        IN  /\ {r[k].label : k \in DOMAIN r} = (2..Len(data)) \ ZeroOverZero
            /\ \A k \in DOMAIN r : \A j \in DOMAIN r : k < j => r[k].label < r[j].label
            /\ \A k \in DOMAIN r :
                  IsReturn(r[k].value, data[r[k].label - 1], data[r[k].label])
            /\ Len(data) >= 1 /\ ZeroOverZero = {} =>
                  /\ Len(r) = Len(data) - 1
                  /\ \A i \in 1..(Len(data) - 1) : IsReturn(r[i].value, data[i], data[i + 1])
            /\ Len(data) = 0 => r = <<>>

\* the returns of four prices, none of them dropped but the first, one of them a
\* fall and one a rise
C9_Witness ==
    /\ series.op = "returns"
    /\ Len(data) = 4
    /\ Len(series.returns) = 3
    /\ \A k \in 1..3 : series.returns[k].value[2] > 0
    /\ \E k \in 1..3 : series.returns[k].value[1] < 0
    /\ \E k \in 1..3 : series.returns[k].value[1] > 0

====
